---------------------------- MODULE Spec2Model ----------------------------
(***************************************************************************)
(* Response-resolution pipeline and document-analysis pipeline of the      *)
(* legal assistant (src/app.py, src/document_processor.py).                *)
(*                                                                         *)
(* A Python string is a sequence of one-character strings, so that         *)
(* lower(), strip(), slicing, "in" and len() are computed, not assumed.    *)
(* One action is one Streamlit script run triggered by one widget.         *)
(***************************************************************************)
EXTENDS Integers, Sequences, FiniteSets, TLC

VARIABLES
    \* ---- process environment, fixed once the script is imported
    GEMINI_AVAILABLE,       \* app.py:11-15
    DOCUMENT_PROCESSING_AVAILABLE,  \* app.py:18-22
    patterns,               \* app.py:94, the value load_patterns() returned
    secrets_store,          \* st.secrets["GEMINI_API_KEY"]
    environ,                \* os.environ["GEMINI_API_KEY"]
    secrets_file,           \* .streamlit/secrets.toml, key GEMINI_API_KEY
    \* ---- st.session_state
    conversation_context,   \* app.py:34-35
    interaction_log,        \* app.py:36-37
    language_preference,    \* app.py:40-41
    user_logged_in,         \* app.py:42-43
    show_doc_analysis,      \* app.py:465-466
    \* ---- what the last script run did (observation of one run)
    handler,                \* which handler ran
    last_query,             \* the raw query handed to get_response
    ret,                    \* the value get_response returned
    consulted,              \* the stages get_response entered, in order
    source,                 \* the exit of get_response: AI, Pattern, Keyword, None
    probed,                 \* the credential sources read, in order
    api_key,                \* the key handed to genai.configure, or None
    reply,                  \* what the provider did on the first model call
    model_calls,            \* the generate_content calls of the run, in order
    fault,                  \* the exception that escaped the handler, or NoFault
    upload,                 \* the uploaded file of the analysis run
    doc_path,               \* the extraction path process_document took
    document_text,          \* what process_document returned
    shown,                  \* what the analysis run displayed
    submitted,              \* the document part of the prompt sent to the model
    analysis                \* what analyze_legal_document returned

envVars == <<GEMINI_AVAILABLE, DOCUMENT_PROCESSING_AVAILABLE, patterns, secrets_store, environ, secrets_file>>
sessionVars == <<conversation_context, interaction_log, language_preference,
                 user_logged_in, show_doc_analysis>>
chatObs == <<last_query, ret, consulted, source>>
docObs == <<upload, doc_path, document_text, shown, submitted, analysis>>
vars == <<envVars, sessionVars, handler, chatObs, probed, api_key, reply,
          model_calls, fault, docObs>>

---------------------------------------------------------------------------
\* Bounds of the model

\* exchanges (a User and an Assistant entry) the transcript may hold: in the
\* specification with the wide inputs, and in the one of whole sessions
MaxTurns == 1
MaxSessionTurns == 2
\* and in the specification of repeated questions
MaxRepeatTurns == 3
\* the longest document tried is this many times the truncation limit
MaxDocFactor == 2

---------------------------------------------------------------------------
\* Python values

None == "None"
NoFault == "NoFault"
NotCalled == [kind |-> "not_called", text |-> <<>>]

\* app.py:115,119,127,146,192,194,202 : truth value of an Optional[str]
Falsy(v) == v = None \/ v = ""

\* str.strip() and str.lower(): whitespace and ASCII case
WHITESPACE == {" ", "\t", "\n"}
UPPERCASE ==
    <<"A","B","C","D","E","F","G","H","I","J","K","L","M",
      "N","O","P","Q","R","S","T","U","V","W","X","Y","Z">>
LOWERCASE ==
    <<"a","b","c","d","e","f","g","h","i","j","k","l","m",
      "n","o","p","q","r","s","t","u","v","w","x","y","z">>

LowerChar(c) ==
    IF \E i \in 1..Len(UPPERCASE) : UPPERCASE[i] = c
    THEN LOWERCASE[CHOOSE i \in 1..Len(UPPERCASE) : UPPERCASE[i] = c]
    ELSE c

lower(s) == [i \in 1..Len(s) |-> LowerChar(s[i])]

RECURSIVE lstrip(_)
lstrip(s) ==
    IF s # <<>> /\ Head(s) \in WHITESPACE THEN lstrip(Tail(s)) ELSE s

RECURSIVE rstrip(_)
rstrip(s) ==
    IF s # <<>> /\ s[Len(s)] \in WHITESPACE
    THEN rstrip(SubSeq(s, 1, Len(s) - 1))
    ELSE s

strip(s) == rstrip(lstrip(s))

\* Python "sub in s" on strings
Contains(sub, s) ==
    \/ sub = <<>>
    \/ \E i \in 0..(Len(s) - Len(sub)) :
           s[i + 1] = sub[1] /\ SubSeq(s, i + 1, i + Len(sub)) = sub

\* Python s.endswith(suffix)
EndsWith(s, suffix) ==
    /\ Len(suffix) <= Len(s)
    /\ SubSeq(s, Len(s) - Len(suffix) + 1, Len(s)) = suffix

---------------------------------------------------------------------------
\* String literals of app.py.  The long response literals are written by
\* their leading words; resolution only compares and copies them.

USER_PREFIX ==
    <<"U","s","e","r",":"," ">>
ASSISTANT_PREFIX ==
    <<"A","s","s","i","s","t","a","n","t",":"," ">>
KW_IPC ==
    <<"i","p","c">>
KW_SECTION ==
    <<"s","e","c","t","i","o","n">>
KW_LAWYER ==
    <<"l","a","w","y","e","r">>
KW_ATTORNEY ==
    <<"a","t","t","o","r","n","e","y">>
KW_COURT ==
    <<"c","o","u","r","t">>
KW_RIGHTS ==
    <<"r","i","g","h","t","s">>
KW_ROBBERY ==
    <<"r","o","b","b","e","r","y">>
KW_THEFT ==
    <<"t","h","e","f","t">>
KW_DACOITY ==
    <<"d","a","c","o","i","t","y">>
KW_ROBERRY ==
    <<"r","o","b","e","r","r","y">>
IPC_RESPONSE ==
    <<"T","h","e"," ","I","n","d","i","a","n"," ","P","e","n","a","l"," ","C","o","d","e"," ","(","I","P","C",")">>
LAWYER_RESPONSE ==
    <<"F","o","r"," ","s","p","e","c","i","f","i","c"," ","l","e","g","a","l"," ","a","d","v","i","c","e">>
COURT_RESPONSE ==
    <<"I","n","d","i","a","n"," ","c","o","u","r","t","s"," ","i","n","c","l","u","d","e">>
RIGHTS_RESPONSE ==
    <<"I","n","d","i","a","n"," ","c","i","t","i","z","e","n","s"," ","h","a","v","e">>
THEFT_RESPONSE ==
    <<"T","h","e","f","t",","," ","R","o","b","b","e","r","y",","," ","a","n","d"," ","D","a","c","o","i","t","y">>
\* translations[...]["no_response"]; the Hindi literal is transliterated
NO_RESPONSE_ENGLISH ==
    <<"S","o","r","r","y",","," ","I"," ","c","o","u","l","d","n","'","t"," ","f","i","n","d">>
NO_RESPONSE_HINDI ==
    <<"M","u","j","h","e"," ","a","a","p","k","e"," ","p","r","a","s","h","n">>

\* literals of analyze_legal_document (app.py:185,203,254; the leading cross
\* mark is left out) and of document_processor.py
MSG_NOT_AVAILABLE ==
    <<"A","I"," ","a","n","a","l","y","s","i","s"," ","n","o","t"," ","a","v","a","i","l","a","b","l","e",".">>
MSG_NO_KEY ==
    <<"A","P","I"," ","k","e","y"," ","n","o","t"," ","c","o","n","f","i","g","u","r","e","d",".">>
ANALYSIS_ERROR_PREFIX ==
    <<"A","n","a","l","y","s","i","s"," ","e","r","r","o","r",":"," ">>
ANALYSIS_ERROR_SUFFIX ==
    <<"\n","\n","P","l","e","a","s","e"," ","t","r","y"," ","a","g","a","i","n">>
PDF_ERROR_PREFIX ==
    <<"E","r","r","o","r"," ","e","x","t","r","a","c","t","i","n","g"," ","P","D","F",":"," ">>
DOCX_ERROR_PREFIX ==
    <<"E","r","r","o","r"," ","e","x","t","r","a","c","t","i","n","g"," ","D","O","C","X",":"," ">>
IMAGE_ERROR_PREFIX ==
    <<"E","r","r","o","r"," ","p","r","o","c","e","s","s","i","n","g"," ","i","m","a","g","e",":"," ">>
IMAGE_PLACEHOLDER ==
    <<"I","m","a","g","e"," ","O","C","R"," ","n","o","t"," ","y","e","t"," ","i","m","p","l","e","m","e","n","t","e","d",".">>
UNSUPPORTED_PREFIX ==
    <<"U","n","s","u","p","p","o","r","t","e","d"," ","f","i","l","e"," ","t","y","p","e",":"," ">>
MARK_ERROR ==
    <<"E","r","r","o","r">>
MARK_NOT_IMPLEMENTED ==
    <<"n","o","t"," ","y","e","t"," ","i","m","p","l","e","m","e","n","t","e","d">>
SUB_PDF ==
    <<"p","d","f">>
SUB_WORD ==
    <<"w","o","r","d">>
SUB_DOCUMENT ==
    <<"d","o","c","u","m","e","n","t">>
SUB_IMAGE ==
    <<"i","m","a","g","e">>
EXT_DOCX ==
    <<".","d","o","c","x">>
EXT_PNG ==
    <<".","p","n","g">>
EXT_JPG ==
    <<".","j","p","g">>
EXT_JPEG ==
    <<".","j","p","e","g">>

\* The languages tried, two of the six of the selectbox (app.py:445-449)
Languages == {"English", "Hindi"}

no_response(language) ==
    IF language = "English" THEN NO_RESPONSE_ENGLISH ELSE NO_RESPONSE_HINDI

---------------------------------------------------------------------------
\* Inputs tried

\* raw queries typed or spoken by the user
Q_BLANK ==
    <<" ">>
Q_HI ==
    <<"H","i">>
Q_IPC ==
    <<"I","P","C">>
Q_LAWYER_COURT ==
    <<" ","L","a","w","y","e","r"," ","c","o","u","r","t"," ">>
Q_COURT_SECTION ==
    <<"c","o","u","r","t"," ","s","e","c","t","i","o","n">>
Q_BAIL_COURT_FEE ==
    <<"B","a","i","l"," ","c","o","u","r","t"," ","f","e","e">>
Q_THEFT ==
    <<"t","h","e","f","t">>
Q_MY_RIGHTS ==
    <<"m","y"," ","r","i","g","h","t","s">>
Q_TAX ==
    <<"t","a","x">>
Q_ATTORNEY_RIGHTS ==
    <<"A","t","t","o","r","n","e","y"," ","r","i","g","h","t","s">>
Q_DACOITY ==
    <<"d","a","c","o","i","t","y","\n">>

Queries ==
    {Q_BLANK, Q_HI, Q_IPC, Q_LAWYER_COURT, Q_COURT_SECTION, Q_BAIL_COURT_FEE,
     Q_THEFT, Q_MY_RIGHTS, Q_TAX, Q_ATTORNEY_RIGHTS, Q_DACOITY}

\* contents of legal_patterns.json as json.load returns them
P_BAIL ==
    <<" ","B","a","i","l"," ">>
R_BAIL ==
    <<"B","a","i","l"," ","i","s"," ","r","e","l","e","a","s","e">>
P_COURT_FEE ==
    <<"C","o","u","r","t"," ","F","e","e">>
R_COURT_FEE ==
    <<"C","o","u","r","t"," ","f","e","e","s"," ","a","r","e">>
P_HI ==
    <<"h","i">>
R_HI ==
    <<"H","e","l","l","o","!">>

PATTERNS_EMPTY == [kind |-> "list", items |-> <<>>]
PATTERNS_FILE ==
    [kind |-> "list",
     items |-> << [kind |-> "dict", pattern |-> P_COURT_FEE],
                  [kind |-> "str"],
                  [kind |-> "dict", pattern |-> P_HI, response |-> R_HI],
                  [kind |-> "dict", pattern |-> P_BAIL, response |-> R_BAIL],
                  [kind |-> "dict", response |-> R_HI],
                  [kind |-> "dict", pattern |-> P_COURT_FEE, response |-> R_COURT_FEE] >>]

\* a file whose JSON is an object, not a list
PATTERNS_OBJECT == [kind |-> "dict", items |-> <<>>]

\* legal_patterns.json on disk: absent, not JSON, or JSON of some content
PatternFileStates ==
    {[state |-> "missing"], [state |-> "invalid"]} \cup
    {[state |-> "json", content |-> c] :
        c \in {PATTERNS_EMPTY, PATTERNS_FILE, PATTERNS_OBJECT}}

\* app.py:83-92
load_patterns(file) ==
    IF file.state = "missing" THEN PATTERNS_EMPTY
    ELSE IF file.state = "invalid" THEN PATTERNS_EMPTY
    ELSE file.content

\* app.py:94 : what the module holds after start-up
PatternFiles == {load_patterns(file) : file \in PatternFileStates}

\* what the hosted model does when it is called: it returns text, or raises
\* an exception whose description is text
E_QUOTA ==
    <<"q","u","o","t","a">>
T_EMPTY ==
    <<>>
T_BLANK ==
    <<" ","\n">>
T_ANSWER ==
    <<" ","C","o","n","s","u","l","t"," ","a"," ","l","a","w","y","e","r",".","\n">>
T_REPORT ==
    <<"#","#"," ","D","o","c","u","m","e","n","t"," ","S","u","m","m","a","r","y","\n">>

RemoteOutcomes ==
    {[kind |-> "raise", text |-> E_QUOTA]} \cup
    {[kind |-> "text", text |-> t] : t \in {T_EMPTY, T_BLANK, T_ANSWER}}

\* the description of the exception a raising secret store lookup carries
E_SECRETS ==
    <<"N","o"," ","s","e","c","r","e","t","s"," ","f","o","u","n","d">>

\* uploaded files: what the extraction library finds in one is its text
\* parts (pages or paragraphs), or an exception with a description
E_EOF ==
    <<"E","O","F"," ","m","a","r","k","e","r"," ","n","o","t"," ","f","o","u","n","d">>
N_LEASE_PDF ==
    <<"l","e","a","s","e",".","p","d","f">>
TYPE_PDF ==
    <<"a","p","p","l","i","c","a","t","i","o","n","/","p","d","f">>
N_DEED_DOCX ==
    <<"d","e","e","d",".","d","o","c","x">>
TYPE_OCTET ==
    <<"a","p","p","l","i","c","a","t","i","o","n","/","o","c","t","e","t","-","s","t","r","e","a","m">>
N_NOTICE_DOC ==
    <<"n","o","t","i","c","e",".","d","o","c">>
TYPE_MSWORD ==
    <<"a","p","p","l","i","c","a","t","i","o","n","/","m","s","w","o","r","d">>
N_SCAN_PNG ==
    <<"s","c","a","n",".","P","N","G">>
TYPE_NONE ==
    <<>>
N_BUNDLE_ZIP ==
    <<"b","u","n","d","l","e",".","z","i","p">>
TYPE_ZIP ==
    <<"a","p","p","l","i","c","a","t","i","o","n","/","z","i","p">>
PAGE_LEASE ==
    <<" ","L","e","a","s","e"," ","d","e","e","d">>
PAGE_CLAUSE ==
    <<"C","l","a","u","s","e"," ","1"," ">>
TYPE_ZIP_MIXED ==
    <<"A","p","p","l","i","c","a","t","i","o","n","/","Z","I","P">>
N_DEED_DOCX_UPPER ==
    <<"D","E","E","D",".","D","O","C","X">>
PAGE_ERRORS ==
    <<"E","r","r","o","r","s"," ","a","n","d"," ","o","m","i","s","s","i","o","n","s">>

\* app.py:498-499
MAX_FILE_SIZE_MB == 10
MAX_FILE_SIZE_BYTES == MAX_FILE_SIZE_MB * 1024 * 1024

\* app.py:209
TRUNCATE_AT == 4000

NoContent == [kind |-> "parts", parts |-> <<>>, text |-> <<>>]
Parts(parts) == [kind |-> "parts", parts |-> parts, text |-> <<>>]
Unreadable(description) == [kind |-> "raise", parts |-> <<>>, text |-> description]

\* a document of n characters that differs from each of its shifts
LongText(n) == [i \in 1..n |-> LOWERCASE[((i * i) % 26) + 1]]
DocLengths ==
    {TRUNCATE_AT - 1, TRUNCATE_AT, TRUNCATE_AT + 1, TRUNCATE_AT * MaxDocFactor}

File(name, type, size, content) ==
    [name |-> name, type |-> type, size |-> size, content |-> content]

Uploads ==
    { File(N_LEASE_PDF, TYPE_PDF, 2048, Parts(<<PAGE_LEASE, PAGE_CLAUSE>>)),
      File(N_LEASE_PDF, TYPE_PDF, 2048, Unreadable(E_EOF)),
      File(N_LEASE_PDF, TYPE_PDF, MAX_FILE_SIZE_BYTES + 1, Parts(<<PAGE_LEASE>>)),
      File(N_DEED_DOCX, TYPE_OCTET, 2048, Parts(<<PAGE_CLAUSE, PAGE_LEASE>>)),
      File(N_NOTICE_DOC, TYPE_MSWORD, 2048, Unreadable(E_EOF)),
      File(N_SCAN_PNG, TYPE_NONE, 2048, Parts(<<>>)),
      File(N_BUNDLE_ZIP, TYPE_ZIP, 2048, Parts(<<>>)),
      File(N_BUNDLE_ZIP, TYPE_ZIP_MIXED, 2048, Parts(<<>>)),
      File(N_SCAN_PNG, TYPE_NONE, 2048, Unreadable(E_EOF)),
      File(N_DEED_DOCX_UPPER, TYPE_OCTET, 2048, Parts(<<PAGE_CLAUSE>>)),
      File(N_LEASE_PDF, TYPE_PDF, 2048, Parts(<<PAGE_LEASE, PAGE_ERRORS>>)) }
    \cup { File(N_LEASE_PDF, TYPE_PDF, n, Parts(<<LongText(n)>>)) : n \in DocLengths }

\* states of one credential source
NOATTR == "<no attribute>"
RAISES == "<raises>"
SecretsStoreStates == {NOATTR, RAISES, None, "", "key-secrets"}
EnvironStates == {None, "", "key-environ"}
SecretsFileStates == {RAISES, None, "", "key-file"}

---------------------------------------------------------------------------
\* get_response (app.py:97-179)

MIN_QUERY_LEN == 3

StrValue(text) == [type |-> "str", value |-> text]
TupleValue(text, flag) == [type |-> "tuple", value |-> <<text, flag>>]
NoValue == [type |-> "none", value |-> <<>>]
\* the call ended by raising exc instead of returning
Raised(exc) == [type |-> "raise", value |-> exc]

\* app.py:108-125
get_response_api_key ==
    IF secrets_store = RAISES
    THEN [raised |-> TRUE, api_key |-> None, probed |-> <<"secrets">>]
    ELSE LET k1 == IF secrets_store = NOATTR THEN None ELSE secrets_store
             p1 == IF secrets_store = NOATTR THEN <<>> ELSE <<"secrets">>
             k2 == IF Falsy(k1) THEN environ ELSE k1
             p2 == IF Falsy(k1) THEN Append(p1, "environ") ELSE p1
             k3 == IF Falsy(k2) /\ secrets_file # RAISES THEN secrets_file ELSE k2
             p3 == IF Falsy(k2) THEN Append(p2, "file") ELSE p2
         IN  [raised |-> FALSE, api_key |-> k3, probed |-> p3]

\* a handler that lets the exception through
gemini_except_propagates(exc) == exc

\* app.py:149-152 : what leaves the try statement when its body raised exc
gemini_except(exc) == NoFault

\* app.py:106-148 : the body of the try; o is what the provider does if called
remote_answer(query, o) ==
    IF ~GEMINI_AVAILABLE
    THEN [text |-> <<>>, exception |-> NoFault, entered |-> FALSE,
          probed |-> <<>>, api_key |-> None, reply |-> NotCalled, calls |-> <<>>]
    ELSE LET cred == get_response_api_key
             called == ~cred.raised /\ ~Falsy(cred.api_key)
         IN  [text |-> IF called /\ o.kind = "text" THEN strip(o.text) ELSE <<>>,
              exception |-> IF cred.raised \/ (called /\ o.kind = "raise")
                            THEN "Exception" ELSE NoFault,
              entered |-> TRUE,
              probed |-> cred.probed,
              api_key |-> IF called THEN cred.api_key ELSE None,
              reply |-> IF called THEN o ELSE NotCalled,
              calls |-> IF called THEN <<"answer">> ELSE <<>>]

\* app.py:155
patterns_usable == patterns.kind = "list" /\ patterns.items # <<>>

\* app.py:157 : isinstance(item, dict) and 'pattern' in item and 'response' in item
is_rule(item) ==
    /\ item.kind = "dict"
    /\ "pattern" \in DOMAIN item
    /\ "response" \in DOMAIN item

\* app.py:157-159
item_matches(item, query) ==
    /\ is_rule(item)
    /\ Contains(strip(lower(item.pattern)), query)

\* a scan that keeps going and answers with the last rule that matches
scan_patterns_last(i, query) ==
    LET M == {j \in i..Len(patterns.items) : item_matches(patterns.items[j], query)}
    IN  IF M = {} THEN 0 ELSE CHOOSE j \in M : \A k \in M : k <= j

\* a scan that gives up at the first entry that is not a complete rule
RECURSIVE scan_patterns_until_incomplete(_, _)
scan_patterns_until_incomplete(i, query) ==
    IF i > Len(patterns.items) THEN 0
    ELSE IF ~is_rule(patterns.items[i]) THEN 0
    ELSE IF item_matches(patterns.items[i], query) THEN i
    ELSE scan_patterns_until_incomplete(i + 1, query)

\* app.py:156-162 : index of the rule the loop returns from, 0 when it runs out
RECURSIVE scan_patterns(_, _)
scan_patterns(i, query) ==
    IF i > Len(patterns.items) THEN 0
    ELSE IF item_matches(patterns.items[i], query) THEN i
    ELSE scan_patterns(i + 1, query)

\* the keyword rules with the court rule tested before the lawyer rule
keyword_fallback_court_first(query) ==
    IF Contains(KW_IPC, query) \/ Contains(KW_SECTION, query)
        THEN IPC_RESPONSE
    ELSE IF Contains(KW_COURT, query)
        THEN COURT_RESPONSE
    ELSE IF Contains(KW_LAWYER, query) \/ Contains(KW_ATTORNEY, query)
        THEN LAWYER_RESPONSE
    ELSE IF Contains(KW_RIGHTS, query)
        THEN RIGHTS_RESPONSE
    ELSE IF \/ Contains(KW_ROBBERY, query) \/ Contains(KW_THEFT, query)
            \/ Contains(KW_DACOITY, query) \/ Contains(KW_ROBERRY, query)
        THEN THEFT_RESPONSE
    ELSE no_response(language_preference)

\* a classifier that remembers it was asked before: once the transcript holds
\* a turn, every question gets the consult-a-lawyer boilerplate
keyword_fallback_by_turn(query) ==
    IF conversation_context = <<>> THEN keyword_fallback_court_first(query)
    ELSE LAWYER_RESPONSE

\* app.py:165-176
keyword_fallback(query) ==
    IF Contains(KW_IPC, query) \/ Contains(KW_SECTION, query)
        THEN IPC_RESPONSE
    ELSE IF Contains(KW_LAWYER, query) \/ Contains(KW_ATTORNEY, query)
        THEN LAWYER_RESPONSE
    ELSE IF Contains(KW_COURT, query)
        THEN COURT_RESPONSE
    ELSE IF Contains(KW_RIGHTS, query)
        THEN RIGHTS_RESPONSE
    ELSE IF \/ Contains(KW_ROBBERY, query) \/ Contains(KW_THEFT, query)
            \/ Contains(KW_DACOITY, query) \/ Contains(KW_ROBERRY, query)
        THEN THEFT_RESPONSE
    ELSE no_response(language_preference)

\* app.py:165-175 : one of the keyword tests holds, the else is not taken
keyword_matches(query) ==
    \E k \in {KW_IPC, KW_SECTION, KW_LAWYER, KW_ATTORNEY, KW_COURT, KW_RIGHTS,
              KW_ROBBERY, KW_THEFT, KW_DACOITY, KW_ROBERRY} : Contains(k, query)

\* app.py:98
normalize(query_raw) == strip(lower(query_raw))

\* a short return that ignores the selected language
short_return_english(context) ==
    [ret |-> StrValue(NO_RESPONSE_ENGLISH), context |-> context,
     source |-> "None", consulted |-> <<>>, probed |-> <<>>, api_key |-> None,
     reply |-> NotCalled, calls |-> <<>>]

\* app.py:99-100
short_return(context) ==
    [ret |-> StrValue(no_response(language_preference)), context |-> context,
     source |-> "None", consulted |-> <<>>, probed |-> <<>>, api_key |-> None,
     reply |-> NotCalled, calls |-> <<>>]

\* a user turn that starts the transcript afresh
user_turn_reset(context, query) == <<USER_PREFIX \o query>>

\* app.py:103
user_turn(context, query) == Append(context, USER_PREFIX \o query)

\* app.py:147,161,178
assistant_turn(context, response) == Append(context, ASSISTANT_PREFIX \o response)

\* the keyword rules asked before the pattern store
local_answer_keyword_first(query) ==
    LET hit == IF patterns_usable THEN scan_patterns(1, query) ELSE 0
    IN  IF keyword_matches(query) \/ hit = 0
        THEN [text |-> keyword_fallback(query),
              source |-> IF keyword_matches(query) THEN "Keyword" ELSE "None",
              consulted |-> IF keyword_matches(query) THEN <<"Keyword">>
                            ELSE <<"Keyword", "Pattern">>]
        ELSE [text |-> patterns.items[hit].response,
              source |-> "Pattern",
              consulted |-> <<"Keyword", "Pattern">>]

\* app.py:154-179 : pattern store, then keyword rules
local_answer(query) ==
    LET hit == IF patterns_usable THEN scan_patterns(1, query) ELSE 0
    IN  IF hit > 0
        THEN [text |-> patterns.items[hit].response,
              source |-> "Pattern",
              consulted |-> <<"Pattern">>]
        ELSE [text |-> keyword_fallback(query),
              source |-> IF keyword_matches(query) THEN "Keyword" ELSE "None",
              consulted |-> IF patterns_usable THEN <<"Pattern", "Keyword">>
                            ELSE <<"Keyword">>]

\* app.py:97-179 : o is what the provider does if it is called
get_response(query_raw, o) ==
    LET query == normalize(query_raw)
    IN  IF Len(query) < MIN_QUERY_LEN
        THEN short_return(conversation_context)
        ELSE
          LET context == user_turn(conversation_context, query)
              remote == remote_answer(query, o)
              local == local_answer(query)
              stage == IF remote.entered THEN <<"Remote">> ELSE <<>>
          IN  IF remote.exception # NoFault
                 /\ gemini_except(remote.exception) # NoFault
              THEN [ret |-> Raised(gemini_except(remote.exception)),
                    context |-> context,
                    source |-> "None", consulted |-> stage,
                    probed |-> remote.probed, api_key |-> remote.api_key,
                    reply |-> remote.reply, calls |-> remote.calls]
              ELSE IF remote.text # <<>>
              THEN [ret |-> TupleValue(remote.text, TRUE),
                    context |-> assistant_turn(context, remote.text),
                    source |-> "AI", consulted |-> stage,
                    probed |-> remote.probed, api_key |-> remote.api_key,
                    reply |-> remote.reply, calls |-> remote.calls]
              ELSE [ret |-> TupleValue(local.text, FALSE),
                    context |-> assistant_turn(context, local.text),
                    source |-> local.source,
                    consulted |-> stage \o local.consulted,
                    probed |-> remote.probed, api_key |-> remote.api_key,
                    reply |-> remote.reply, calls |-> remote.calls]

---------------------------------------------------------------------------
\* Script runs of the chat page

\* "a, b = value" : a tuple of two unpacks, and so does a string of two characters
can_unpack(value) ==
    \/ value.type = "tuple"
    \/ value.type = "str" /\ Len(value.value) = 2

\* the exception that ends the handler at "response, flag = get_response(...)"
call_fault(value) ==
    IF value.type = "raise" THEN value.value
    ELSE IF can_unpack(value) THEN NoFault
    ELSE "ValueError"

unpack(value) ==
    IF value.type = "tuple" THEN value.value
    ELSE << <<value.value[1]>>, TRUE >>

NoUpload == [name |-> <<>>, type |-> <<>>, size |-> 0, content |-> NoContent]
NotSubmitted == [name |-> <<>>, length |-> 0, content |-> <<>>]

NoDocObs ==
    /\ upload' = NoUpload
    /\ doc_path' = "none"
    /\ document_text' = <<>>
    /\ shown' = "none"
    /\ submitted' = NotSubmitted
    /\ analysis' = NoValue

NoChatObs ==
    /\ last_query' = <<>>
    /\ ret' = NoValue
    /\ consulted' = <<>>
    /\ source' = "None"

NoRemoteObs ==
    /\ probed' = <<>>
    /\ api_key' = None
    /\ reply' = NotCalled
    /\ model_calls' = <<>>

\* what get_response did in this run
ChatObs(query_raw, r) ==
    /\ last_query' = query_raw
    /\ ret' = r.ret
    /\ consulted' = r.consulted
    /\ source' = r.source
    /\ probed' = r.probed
    /\ api_key' = r.api_key
    /\ reply' = r.reply
    /\ conversation_context' = r.context

\* a follow-up offered whatever the flag says
is_ai_generated_ignored(flag) == TRUE

\* app.py:585 : "if is_ai_generated:"
is_ai_generated(flag) == flag = TRUE

\* app.py:577-609
ChatInput(prompt, o) ==
    /\ user_logged_in
    /\ prompt # <<>>
    /\ \E r \in {get_response(prompt, o)} :
           /\ ChatObs(prompt, r)
           /\ IF can_unpack(r.ret)
              THEN /\ interaction_log' =
                          Append(interaction_log,
                                 [user_query |-> prompt,
                                  assistant_response |-> unpack(r.ret)[1]])
                   /\ model_calls' = IF is_ai_generated(unpack(r.ret)[2])
                                     THEN Append(r.calls, "detailed")
                                     ELSE r.calls
                   /\ fault' = NoFault
              ELSE /\ interaction_log' = interaction_log
                   /\ model_calls' = r.calls
                   /\ fault' = call_fault(r.ret)
    /\ handler' = "chat"
    /\ NoDocObs
    /\ UNCHANGED <<envVars, language_preference, user_logged_in, show_doc_analysis>>

\* app.py:650-657
VoiceQuery(query, o) ==
    /\ query # <<>>
    /\ \E r \in {get_response(query, o)} :
           /\ ChatObs(query, r)
           /\ model_calls' = r.calls
           /\ fault' = call_fault(r.ret)
    /\ handler' = "voice"
    /\ NoDocObs
    /\ UNCHANGED <<envVars, interaction_log, language_preference, user_logged_in,
                   show_doc_analysis>>

\* app.py:445-453
SelectLanguage(language) ==
    /\ language # language_preference
    /\ language_preference' = language
    /\ handler' = "language"
    /\ fault' = NoFault
    /\ NoChatObs /\ NoRemoteObs /\ NoDocObs
    /\ UNCHANGED <<envVars, conversation_context, interaction_log, user_logged_in,
                   show_doc_analysis>>

\* app.py:456-460
Login ==
    /\ ~user_logged_in
    /\ user_logged_in' = TRUE
    /\ handler' = "login"
    /\ fault' = NoFault
    /\ NoChatObs /\ NoRemoteObs /\ NoDocObs
    /\ UNCHANGED <<envVars, conversation_context, interaction_log,
                   language_preference, show_doc_analysis>>

---------------------------------------------------------------------------
\* document_processor.py

\* document_processor.py:16-18, 28-30 : text += part + "\n" for every part
RECURSIVE join_parts(_)
join_parts(parts) ==
    IF parts = <<>> THEN <<>>
    ELSE Head(parts) \o <<"\n">> \o join_parts(Tail(parts))

\* document_processor.py:12-21
extract_text_from_pdf(content) ==
    IF content.kind = "raise" THEN PDF_ERROR_PREFIX \o content.text
    ELSE strip(join_parts(content.parts))

\* document_processor.py:24-33
extract_text_from_docx(content) ==
    IF content.kind = "raise" THEN DOCX_ERROR_PREFIX \o content.text
    ELSE strip(join_parts(content.parts))

\* document_processor.py:36-43
extract_text_from_image(content) ==
    IF content.kind = "raise" THEN IMAGE_ERROR_PREFIX \o content.text
    ELSE IMAGE_PLACEHOLDER

\* document_processor.py:46-60
process_document(uploaded_file) ==
    LET file_type == lower(uploaded_file.type)
    IN  IF Contains(SUB_PDF, file_type)
        THEN [path |-> "pdf", text |-> extract_text_from_pdf(uploaded_file.content)]
        ELSE IF \/ Contains(SUB_WORD, file_type)
                \/ Contains(SUB_DOCUMENT, file_type)
                \/ EndsWith(uploaded_file.name, EXT_DOCX)
        THEN [path |-> "docx", text |-> extract_text_from_docx(uploaded_file.content)]
        ELSE IF \/ Contains(SUB_IMAGE, file_type)
                \/ \E ext \in {EXT_PNG, EXT_JPG, EXT_JPEG} :
                       EndsWith(lower(uploaded_file.name), ext)
        THEN [path |-> "image", text |-> extract_text_from_image(uploaded_file.content)]
        ELSE [path |-> "unsupported", text |-> UNSUPPORTED_PREFIX \o file_type]

---------------------------------------------------------------------------
\* analyze_legal_document (app.py:181-254)

\* app.py:189-200
analyze_api_key ==
    IF secrets_store = RAISES
    THEN [raised |-> TRUE, api_key |-> None, probed |-> <<"secrets">>]
    ELSE LET k1 == IF secrets_store = NOATTR THEN None ELSE secrets_store
             p1 == IF secrets_store = NOATTR THEN <<>> ELSE <<"secrets">>
             k2 == IF Falsy(k1) THEN environ ELSE k1
             p2 == IF Falsy(k1) THEN Append(p1, "environ") ELSE p1
             k3 == IF Falsy(k2) /\ secrets_file # RAISES THEN secrets_file ELSE k2
             p3 == IF Falsy(k2) THEN Append(p2, "file") ELSE p2
         IN  [raised |-> FALSE, api_key |-> k3, probed |-> p3]

\* a slice that is never taken
text_sample_whole(doc_text) == doc_text

\* app.py:209
text_sample(doc_text) ==
    IF Len(doc_text) > TRUNCATE_AT
    THEN SubSeq(doc_text, 1, TRUNCATE_AT)
    ELSE doc_text

\* an except clause that lets the exception through
analysis_error_propagates(description) == Raised("Exception")

\* app.py:253-254
analysis_error(description) ==
    StrValue(ANALYSIS_ERROR_PREFIX \o description \o ANALYSIS_ERROR_SUFFIX)

\* app.py:212-248 : the parts of the prompt that vary with the document
analysis_prompt(doc_text, document_name) ==
    [name |-> document_name,
     length |-> Len(doc_text),
     content |-> text_sample(doc_text)]

\* app.py:181-254 : o is what the provider does if it is called
analyze_legal_document(doc_text, document_name, o) ==
    IF ~GEMINI_AVAILABLE
    THEN [ret |-> StrValue(MSG_NOT_AVAILABLE), probed |-> <<>>, api_key |-> None,
          reply |-> NotCalled, calls |-> <<>>, submitted |-> NotSubmitted]
    ELSE
      LET cred == analyze_api_key
      IN  IF cred.raised
          THEN [ret |-> analysis_error(E_SECRETS), probed |-> cred.probed,
                api_key |-> None, reply |-> NotCalled, calls |-> <<>>,
                submitted |-> NotSubmitted]
          ELSE IF Falsy(cred.api_key)
          THEN [ret |-> StrValue(MSG_NO_KEY), probed |-> cred.probed,
                api_key |-> None, reply |-> NotCalled, calls |-> <<>>,
                submitted |-> NotSubmitted]
          ELSE [ret |-> IF o.kind = "raise" THEN analysis_error(o.text)
                        ELSE StrValue(o.text),
                probed |-> cred.probed, api_key |-> cred.api_key,
                reply |-> o, calls |-> <<"analysis">>,
                submitted |-> analysis_prompt(doc_text, document_name)]

---------------------------------------------------------------------------
\* Script runs of the document analysis section

\* app.py:675-677
ToggleDocAnalysis ==
    /\ show_doc_analysis' = ~show_doc_analysis
    /\ handler' = "toggle"
    /\ fault' = NoFault
    /\ NoChatObs /\ NoRemoteObs /\ NoDocObs
    /\ UNCHANGED <<envVars, conversation_context, interaction_log,
                   language_preference, user_logged_in>>

\* app.py:541
looks_like_error(text) ==
    Contains(MARK_ERROR, text) \/ Contains(MARK_NOT_IMPLEMENTED, text)

\* app.py:514-572 : the Analyze button on an uploaded file
AnalyzeClicked(uploaded_file, o) ==
    /\ user_logged_in
    /\ show_doc_analysis
    /\ handler' = "analyze"
    /\ upload' = uploaded_file
    /\ NoChatObs
    /\ IF uploaded_file.size > MAX_FILE_SIZE_BYTES
       THEN /\ shown' = "too_large"
            /\ doc_path' = "none" /\ document_text' = <<>>
            /\ analysis' = NoValue /\ submitted' = NotSubmitted
            /\ fault' = NoFault
            /\ NoRemoteObs
       ELSE IF ~DOCUMENT_PROCESSING_AVAILABLE
       THEN /\ shown' = "install"
            /\ doc_path' = "none" /\ document_text' = <<>>
            /\ analysis' = NoValue /\ submitted' = NotSubmitted
            /\ fault' = NoFault
            /\ NoRemoteObs
       ELSE \E doc \in {process_document(uploaded_file)} :
            /\ doc_path' = doc.path
            /\ document_text' = doc.text
            /\ IF looks_like_error(doc.text)
               THEN /\ shown' = "error"
                    /\ analysis' = NoValue /\ submitted' = NotSubmitted
                    /\ fault' = NoFault
                    /\ NoRemoteObs
               ELSE \E a \in {analyze_legal_document(doc.text, uploaded_file.name, o)} :
                    /\ analysis' = a.ret
                    /\ submitted' = a.submitted
                    /\ probed' = a.probed
                    /\ api_key' = a.api_key
                    /\ reply' = a.reply
                    /\ model_calls' = a.calls
                    /\ shown' = IF a.ret.type = "raise" THEN "none" ELSE "analysis"
                    /\ fault' = IF a.ret.type = "raise" THEN a.ret.value ELSE NoFault
    /\ UNCHANGED <<envVars, sessionVars>>

---------------------------------------------------------------------------
\* Specifications of the chat page

\* app.py:31-43 and the observation of no run
InitState ==
    /\ conversation_context = <<>>
    /\ interaction_log = <<>>
    /\ language_preference = "English"
    /\ user_logged_in = FALSE
    /\ show_doc_analysis = FALSE
    /\ handler = "none"
    /\ last_query = <<>>
    /\ ret = NoValue
    /\ consulted = <<>>
    /\ source = "None"
    /\ probed = <<>>
    /\ api_key = None
    /\ reply = NotCalled
    /\ model_calls = <<>>
    /\ fault = NoFault
    /\ upload = NoUpload
    /\ doc_path = "none"
    /\ document_text = <<>>
    /\ shown = "none"
    /\ submitted = NotSubmitted
    /\ analysis = NoValue

InitSources(S) ==
    \E sources \in S :
        /\ secrets_store = sources[1]
        /\ environ = sources[2]
        /\ secrets_file = sources[3]

\* credential configurations of the chat specifications: nothing anywhere, a
\* secret store whose lookup raises beside a key in the environment, and a key
\* held by exactly one source
ChatSources ==
    { <<None, None, RAISES>>,
      <<RAISES, "key-environ", RAISES>>,
      <<"key-secrets", None, None>>,
      <<NOATTR, "", "key-file">> }

\* the transcript has room for one more exchange
Room(turns) == Len(conversation_context) < 2 * turns

\* Wide inputs, short sessions
Init ==
    /\ InitState
    /\ GEMINI_AVAILABLE \in BOOLEAN
    /\ DOCUMENT_PROCESSING_AVAILABLE = TRUE
    /\ patterns \in PatternFiles
    /\ InitSources(ChatSources)

Next ==
    \/ Login
    \/ \E language \in Languages : SelectLanguage(language)
    \/ /\ Room(MaxTurns)
       /\ \E prompt \in Queries, o \in RemoteOutcomes : ChatInput(prompt, o)
    \/ /\ Room(MaxTurns)
       /\ \E query \in Queries, o \in RemoteOutcomes : VoiceQuery(query, o)

Spec == Init /\ [][Next]_vars

\* Whole sessions, few inputs
SessionQueries == {Q_HI, Q_IPC, Q_BAIL_COURT_FEE, Q_TAX}
SessionOutcomes ==
    {[kind |-> "raise", text |-> E_QUOTA], [kind |-> "text", text |-> T_ANSWER]}

InitSession ==
    /\ InitState
    /\ GEMINI_AVAILABLE \in BOOLEAN
    /\ DOCUMENT_PROCESSING_AVAILABLE = TRUE
    /\ patterns \in PatternFiles
    /\ InitSources({<<NOATTR, "key-environ", RAISES>>})

NextSession ==
    \/ Login
    \/ \E language \in Languages : SelectLanguage(language)
    \/ /\ Room(MaxSessionTurns)
       /\ \E prompt \in SessionQueries, o \in SessionOutcomes : ChatInput(prompt, o)
    \/ /\ Room(MaxSessionTurns)
       /\ \E query \in SessionQueries, o \in SessionOutcomes : VoiceQuery(query, o)

SpecSession == InitSession /\ [][NextSession]_vars

\* Repeated questions: the same few questions asked again and again while the
\* provider comes and goes and the language preference changes
RepeatQueries == {Q_IPC, Q_COURT_SECTION, Q_TAX}

\* the pattern file of this specification, as loaded at start-up
PatternsOnDisk == load_patterns([state |-> "json", content |-> PATTERNS_FILE])

InitRepeat ==
    /\ InitState
    /\ GEMINI_AVAILABLE \in BOOLEAN
    /\ DOCUMENT_PROCESSING_AVAILABLE = TRUE
    /\ patterns = PatternsOnDisk
    /\ InitSources({<<NOATTR, "key-environ", RAISES>>})

NextRepeat ==
    \/ Login
    \/ \E language \in Languages : SelectLanguage(language)
    \/ /\ Room(MaxRepeatTurns)
       /\ \E prompt \in RepeatQueries, o \in SessionOutcomes : ChatInput(prompt, o)
    \/ /\ Room(MaxRepeatTurns)
       /\ \E query \in RepeatQueries, o \in SessionOutcomes : VoiceQuery(query, o)

SpecRepeat == InitRepeat /\ [][NextRepeat]_vars

---------------------------------------------------------------------------
\* Specification of the document analysis section

AnalysisOutcomes ==
    {[kind |-> "raise", text |-> E_QUOTA]} \cup
    {[kind |-> "text", text |-> t] : t \in {T_EMPTY, T_REPORT}}

InitDoc ==
    /\ InitState
    /\ GEMINI_AVAILABLE \in BOOLEAN
    /\ DOCUMENT_PROCESSING_AVAILABLE \in BOOLEAN
    /\ patterns = PATTERNS_EMPTY
    /\ InitSources(ChatSources)

NextDoc ==
    \/ Login
    \/ ToggleDocAnalysis
    \/ \E uploaded_file \in Uploads, o \in AnalysisOutcomes :
           AnalyzeClicked(uploaded_file, o)

SpecDoc == InitDoc /\ [][NextDoc]_vars

\* Credential resolution of both flows, every state of the three sources
\* (a secret store whose lookup raises has found no readable secrets file, so
\* reading the local file fails as well)
AllSources ==
    {sources \in SecretsStoreStates \X EnvironStates \X SecretsFileStates :
        sources[1] = RAISES => sources[3] = RAISES}

InitCred ==
    /\ InitState
    /\ GEMINI_AVAILABLE = TRUE
    /\ DOCUMENT_PROCESSING_AVAILABLE = TRUE
    /\ patterns = PATTERNS_EMPTY
    /\ InitSources(AllSources)

\* the one question and the one upload of this specification, and what the
\* provider answers if it is reached
CredAnswer == [kind |-> "text", text |-> T_ANSWER]
CredUpload == File(N_LEASE_PDF, TYPE_PDF, 2048, Parts(<<PAGE_LEASE>>))
CredReport == [kind |-> "text", text |-> T_REPORT]

NextCred ==
    \/ Login
    \/ ToggleDocAnalysis
    \/ /\ Room(MaxTurns)
       /\ ChatInput(Q_TAX, CredAnswer)
    \/ AnalyzeClicked(CredUpload, CredReport)

SpecCred == InitCred /\ [][NextCred]_vars

---------------------------------------------------------------------------
\* Vocabulary of the properties

\* the last run called get_response
Called == handler \in {"chat", "voice"}

\* the query of the last call, lower-cased and trimmed
Normalized == strip(lower(last_query))
LongQuery == Len(Normalized) >= 3

Returned == ret.type \in {"str", "tuple"}
ResultText == IF ret.type = "tuple" THEN ret.value[1] ELSE ret.value
TaggedAI == ret.type = "tuple" /\ ret.value[2] = TRUE

\* the provider was called and returned text / text that is not blank
RemoteGaveText == reply.kind = "text" /\ reply.text # <<>>
RemoteGaveAnswer == reply.kind = "text" /\ strip(reply.text) # <<>>

InSeq(x, seq) == \E i \in 1..Len(seq) : seq[i] = x
IsPrefix(a, b) == Len(a) <= Len(b) /\ SubSeq(b, 1, Len(a)) = a

\* entry i of the pattern file is a rule: it has both fields
IsRule(i) ==
    /\ patterns.items[i].kind = "dict"
    /\ {"pattern", "response"} \subseteq DOMAIN patterns.items[i]

\* the least index of S, 0 when S is empty
FirstOf(S) == IF S = {} THEN 0 ELSE CHOOSE i \in S : \A j \in S : i <= j

\* the rule's pattern, lower-cased and trimmed, is a substring of the query
PatternMatches(i) == Contains(strip(lower(patterns.items[i].pattern)), Normalized)
\* the rule's pattern, lower-cased, is a substring of the query
PatternOccurs(i) == Contains(lower(patterns.items[i].pattern), Normalized)

\* the first rule, in load order, that matches / whose pattern occurs
FirstMatching ==
    FirstOf({i \in 1..Len(patterns.items) : IsRule(i) /\ PatternMatches(i)})
FirstOccurring ==
    FirstOf({i \in 1..Len(patterns.items) : IsRule(i) /\ PatternOccurs(i)})

\* the keyword rules in their fixed order
KeywordRules ==
    << [keywords |-> {KW_IPC, KW_SECTION}, response |-> IPC_RESPONSE],
       [keywords |-> {KW_LAWYER, KW_ATTORNEY}, response |-> LAWYER_RESPONSE],
       [keywords |-> {KW_COURT}, response |-> COURT_RESPONSE],
       [keywords |-> {KW_RIGHTS}, response |-> RIGHTS_RESPONSE],
       [keywords |-> {KW_ROBBERY, KW_THEFT, KW_DACOITY, KW_ROBERRY},
        response |-> THEFT_RESPONSE] >>

KeywordRuleMatches(i) == \E k \in KeywordRules[i].keywords : Contains(k, Normalized)

\* the answer of the first keyword rule that matches, else the localized default
KeywordAnswer ==
    LET first == FirstOf({i \in 1..Len(KeywordRules) : KeywordRuleMatches(i)})
    IN  IF first = 0 THEN no_response(language_preference)
        ELSE KeywordRules[first].response

\* the stages are entered in the order Remote, Pattern, Keyword, each at most once
StageRank(stage) == IF stage = "Remote" THEN 1 ELSE IF stage = "Pattern" THEN 2 ELSE 3
InStageOrder ==
    \A i, j \in 1..Len(consulted) :
        i < j => StageRank(consulted[i]) < StageRank(consulted[j])

\* no stage after the one that answered was entered
ShortCircuits ==
    /\ InStageOrder
    /\ source = "AI" => consulted = <<"Remote">>
    /\ source = "Pattern" => ~InSeq("Keyword", consulted)

---------------------------------------------------------------------------
\* Properties

\* C1 as stated: for EVERY query the answer is tagged AI iff the provider
\* returned non-empty text, else it is the first matching pattern rule's
\* response, else the first matching keyword rule's response, else the
\* localized default, and no stage after the answering one is consulted.
C1_PrecedenceForEveryQuery ==
    Called =>
        /\ Returned
        /\ TaggedAI <=> RemoteGaveText
        /\ ~RemoteGaveText =>
               ResultText = IF FirstMatching > 0
                            THEN patterns.items[FirstMatching].response
                            ELSE KeywordAnswer
        /\ ShortCircuits

\* C1 amended: for every query of normalized length >= 3 the answer is tagged
\* AI iff the provider returned text that is non-empty after trimming, else it
\* is the first matching pattern rule's response, else the first matching
\* keyword rule's response, else the localized default, and no stage after
\* the answering one is consulted.
C1_PrecedenceForLongQueries ==
    (Called /\ LongQuery) =>
        /\ Returned
        /\ TaggedAI <=> RemoteGaveAnswer
        /\ ~RemoteGaveAnswer =>
               ResultText = IF FirstMatching > 0
                            THEN patterns.items[FirstMatching].response
                            ELSE KeywordAnswer
        /\ ShortCircuits

\* the provider returned blank text and a pattern rule answered although a
\* keyword rule matches too
C1_Witness ==
    /\ handler = "chat"
    /\ last_query = Q_BAIL_COURT_FEE
    /\ reply.kind = "text" /\ reply.text = T_BLANK
    /\ source = "Pattern"
    /\ consulted = <<"Remote", "Pattern">>

\* C2: a query whose normalized length is below 3 gets exactly the
\* no_response string of the selected language, and neither the provider,
\* nor the pattern store, nor the keyword rules are consulted.
C2_ShortQueryDefault ==
    (Called /\ ~LongQuery) =>
        /\ ret = StrValue(no_response(language_preference))
        /\ consulted = <<>>
        /\ probed = <<>>
        /\ reply = NotCalled
        /\ ~InSeq("answer", model_calls)

\* a short query that a pattern rule matches, asked in Hindi with the
\* provider ready to answer
C2_Witness ==
    /\ Called
    /\ last_query = Q_HI
    /\ language_preference = "Hindi"
    /\ patterns = PATTERNS_FILE
    /\ GEMINI_AVAILABLE /\ secrets_store = "key-secrets"

\* every way the remote provider fails
NoCredential ==
    /\ secrets_store \in {NOATTR, None, ""}
    /\ environ \in {None, ""}
    /\ secrets_file \in {RAISES, None, ""}

RemoteFailed ==
    \/ ~GEMINI_AVAILABLE
    \/ NoCredential
    \/ secrets_store = RAISES
    \/ reply.kind = "raise"
    \/ reply.kind = "text" /\ strip(reply.text) = <<>>

\* C3: when the remote provider fails in any way, get_response raises
\* nothing and its answer is tagged Pattern, Keyword or None, never AI.
C3_RemoteFailureSwallowed ==
    (Called /\ RemoteFailed) =>
        /\ Returned
        /\ ~TaggedAI
        /\ source \in {"Pattern", "Keyword", "None"}

\* the model call raised and a keyword rule answered
C3_Witness ==
    /\ Called
    /\ reply.kind = "raise"
    /\ InSeq("answer", model_calls)
    /\ source = "Keyword"
    /\ fault = NoFault

\* C4 as stated: with the provider unavailable, a query of normalized length
\* >= 3 that contains a stored pattern as a substring gets the response of
\* the first rule whose pattern it contains, keyword matches notwithstanding.
C4_FirstContainedPatternWins ==
    (Called /\ LongQuery /\ RemoteFailed /\ FirstOccurring > 0) =>
        ret = TupleValue(patterns.items[FirstOccurring].response, FALSE)

\* C4 amended: with the provider unavailable, a query of normalized length
\* >= 3 that contains the lower-cased and trimmed pattern of a stored rule
\* gets the response of the first such rule in load order, keyword matches
\* notwithstanding.
C4_FirstMatchingPatternWins ==
    (Called /\ LongQuery /\ RemoteFailed /\ FirstMatching > 0) =>
        /\ ret = TupleValue(patterns.items[FirstMatching].response, FALSE)
        /\ source = "Pattern"

\* a query matched by two pattern rules and by the court keyword, provider
\* library missing
C4_Witness ==
    /\ Called
    /\ ~GEMINI_AVAILABLE
    /\ last_query = Q_BAIL_COURT_FEE
    /\ patterns = PATTERNS_FILE
    /\ KeywordRuleMatches(3)
    /\ ResultText = R_BAIL

\* C5: with the provider unavailable and no pattern matching, the answer is
\* that of the first keyword rule that matches in the fixed order, else the
\* localized default; lawyer with court gets the lawyer answer, section with
\* anything gets the IPC answer.
C5_KeywordOrder ==
    (Called /\ LongQuery /\ RemoteFailed /\ FirstMatching = 0) =>
        /\ ret = TupleValue(KeywordAnswer, FALSE)
        /\ Contains(KW_SECTION, Normalized) => ResultText = IPC_RESPONSE
        /\ (/\ Contains(KW_LAWYER, Normalized) /\ Contains(KW_COURT, Normalized)
            /\ ~KeywordRuleMatches(1)) => ResultText = LAWYER_RESPONSE

\* a query with both lawyer and court answered by the lawyer rule
C5_Witness ==
    /\ Called
    /\ last_query = Q_LAWYER_COURT
    /\ RemoteFailed
    /\ ResultText = LAWYER_RESPONSE

\* C6: every call of get_response leaves the transcript ending with the
\* user turn and the assistant turn it produced, short queries included.
C6_EveryCallAppends ==
    Called =>
        /\ Len(conversation_context) >= 2
        /\ conversation_context[Len(conversation_context) - 1] =
               USER_PREFIX \o Normalized
        /\ conversation_context[Len(conversation_context)] =
               ASSISTANT_PREFIX \o ResultText

\* C7: the transcript is append-only, and a call with a query of normalized
\* length >= 3 appends exactly one User entry and then one Assistant entry
\* carrying the returned text, whichever stage answered.
C7_TranscriptAppendOnly ==
    [][ /\ IsPrefix(conversation_context, conversation_context')
        /\ (Called' /\ LongQuery') =>
              conversation_context' =
                  conversation_context \o
                      << USER_PREFIX \o Normalized',
                         ASSISTANT_PREFIX \o ResultText' >>
      ]_vars

\* a second exchange, answered by the provider, after a first one
C7_Witness ==
    /\ Called
    /\ Len(conversation_context) = 4
    /\ source = "AI"
    /\ conversation_context[4] = ASSISTANT_PREFIX \o ResultText

\* the source holds a non-empty key and hands it over
Yields(state) == state \notin {NOATTR, RAISES, None, ""}

\* the key of the first source, in the order secret store, environment,
\* local file, that holds a non-empty one
FirstKey ==
    IF Yields(secrets_store) THEN secrets_store
    ELSE IF Yields(environ) THEN environ
    ELSE IF Yields(secrets_file) THEN secrets_file
    ELSE None

\* the last run called analyze_legal_document / resolved a credential
AnalysisRan == handler = "analyze" /\ analysis.type # "none"
ResolutionRan ==
    GEMINI_AVAILABLE /\ ((Called /\ LongQuery) \/ AnalysisRan)

\* C8: in both flows the credential used is the key of the first source, in
\* the order secret store, environment, local file, that holds a non-empty
\* one; a later source is read only when every earlier one yielded nothing;
\* a credential is resolved whenever some source holds a non-empty key.
C8_FirstNonEmptySourceWins ==
    ResolutionRan =>
        /\ api_key = FirstKey
        /\ InSeq("environ", probed) => ~Yields(secrets_store)
        /\ InSeq("file", probed) => ~Yields(secrets_store) /\ ~Yields(environ)

\* C9: the document content submitted to the provider is the first
\* min(len(text), 4000) characters of the text handed to analysis.
C9_SubmittedIsTruncatedPrefix ==
    (handler = "analyze" /\ InSeq("analysis", model_calls)) =>
        /\ Len(submitted.content) =
               IF Len(document_text) < TRUNCATE_AT THEN Len(document_text)
               ELSE TRUNCATE_AT
        /\ Len(submitted.content) <= TRUNCATE_AT
        /\ IsPrefix(submitted.content, document_text)
        /\ Len(document_text) <= TRUNCATE_AT => submitted.content = document_text

\* a document longer than the limit went to the provider cut to the limit
C9_Witness ==
    /\ handler = "analyze"
    /\ InSeq("analysis", model_calls)
    /\ Len(document_text) > TRUNCATE_AT + 1
    /\ Len(submitted.content) = TRUNCATE_AT

---------------------------------------------------------------------------
\* Document dispatch

\* the last run called process_document
Processed == handler = "analyze" /\ doc_path # "none"

\* the declared type and the file name of the upload, compared without case
DeclaredType == lower(upload.type)
FileName == lower(upload.name)

PdfRule == Contains(SUB_PDF, DeclaredType)
DocxRule ==
    \/ Contains(SUB_WORD, DeclaredType)
    \/ Contains(SUB_DOCUMENT, DeclaredType)
    \/ EndsWith(FileName, EXT_DOCX)
ImageRule ==
    \/ Contains(SUB_IMAGE, DeclaredType)
    \/ \E ext \in {EXT_PNG, EXT_JPG, EXT_JPEG} : EndsWith(FileName, ext)

MARK_UNSUPPORTED ==
    <<"u","n","s","u","p","p","o","r","t","e","d">>

\* C11 (src/document_processor.py:46-60): a document that none of the PDF,
\* DOCX and image rules matches is answered, without an exception, by a string
\* that holds the declared type exactly as the caller supplied it and an
\* "unsupported" marker.
C11_UnsupportedNamesDeclaredType ==
    (Processed /\ ~PdfRule /\ ~DocxRule /\ ~ImageRule) =>
        /\ fault = NoFault
        /\ Contains(MARK_UNSUPPORTED, lower(document_text))
        /\ Contains(upload.type, document_text)

ERROR_EXTRACTING ==
    <<"E","r","r","o","r"," ","e","x","t","r","a","c","t","i","n","g"," ">>

\* the name of a format as the error prefix spells it
FormatName(path) ==
    IF path = "pdf" THEN <<"p","d","f">>
    ELSE IF path = "docx" THEN <<"d","o","c","x">>
    ELSE <<"i","m","a","g","e">>

\* the library faulted while the upload was read
ExtractionFailed ==
    /\ Processed
    /\ doc_path \in {"pdf", "docx", "image"}
    /\ upload.content.kind = "raise"

\* C12 (src/document_processor.py:12-60): no extraction failure escapes
\* process_document; on every format path a library fault becomes a returned
\* string prefixed "Error extracting <FORMAT>: " and no exception reaches the
\* caller.
C12_ExtractionFailureIsPrefixedString ==
    ExtractionFailed =>
        /\ fault = NoFault
        /\ IsPrefix(lower(ERROR_EXTRACTING) \o FormatName(doc_path) \o <<":", " ">>,
                    lower(document_text))

\* the path the dispatch rules give the upload: the first rule that matches
RuledPath ==
    IF PdfRule THEN "pdf"
    ELSE IF DocxRule THEN "docx"
    ELSE IF ImageRule THEN "image"
    ELSE "unsupported"

\* C13 (src/document_processor.py:46-60): process_document routes a document
\* to exactly one path, the first that matches in the order PDF (type contains
\* "pdf"), DOCX (type contains "word" or "document", or name ends ".docx"),
\* image (type contains "image", or name ends in an image extension),
\* unsupported; the type and the name are both tested without regard to case.
C13_DispatchFirstRuleCaseInsensitive ==
    Processed => doc_path = RuledPath

---------------------------------------------------------------------------
\* Follow-up calls and the interaction log

\* the last run issued the detailed-answer model call
DetailedIssued == InSeq("detailed", model_calls)

\* C14 (src/app.py:579-604, 144-148): the detailed-answer model call is issued
\* only for a chat query whose answer get_response tagged as AI-sourced, never
\* after a Pattern, Keyword or Default answer and never by a voice query, in
\* any sequence of chat and voice queries.
C14_DetailedOnlyAfterAI ==
    DetailedIssued =>
        /\ handler = "chat"
        /\ TaggedAI
        /\ source = "AI"
        /\ RemoteGaveAnswer

\* the second query of a session is answered by the model and followed up
C14_Witness ==
    /\ DetailedIssued
    /\ TaggedAI
    /\ Len(conversation_context) = 4
    /\ Len(interaction_log) = 2

---------------------------------------------------------------------------
\* Incomplete pattern entries

\* an entry that is an object holding a pattern and a response
IsCompleteEntry(item) ==
    item.kind = "dict" /\ {"pattern", "response"} \subseteq DOMAIN item

\* the loaded list without the entries that lack a field
CompleteEntries ==
    IF patterns.kind = "list" THEN SelectSeq(patterns.items, IsCompleteEntry)
    ELSE <<>>

\* the answer of the local stages to the last query when the rules are rules
AnswerOver(rules) ==
    LET first == FirstOf({i \in 1..Len(rules) :
                    Contains(strip(lower(rules[i].pattern)), Normalized)})
    IN  IF ~LongQuery THEN no_response(language_preference)
        ELSE IF first > 0 THEN rules[first].response
        ELSE KeywordAnswer

\* C15 (src/app.py:83-94, 154-162): pattern entries that lack the pattern or
\* the response field are skipped silently: when the remote provider gives no
\* answer, get_response returns, without raising, what it would return for the
\* list with those entries removed, and with a missing, malformed or empty
\* pattern file it answers through the keyword rules or the default.
C15_IncompleteEntriesSkipped ==
    (Called /\ ~RemoteGaveAnswer) =>
        /\ Returned
        /\ ResultText = AnswerOver(CompleteEntries)
        /\ (LongQuery /\ CompleteEntries = <<>>) =>
               /\ source \in {"Keyword", "None"}
               /\ ResultText = KeywordAnswer

\* a rule that stands behind an incomplete entry answers the query
C15_Witness ==
    /\ Called /\ ~RemoteGaveAnswer /\ LongQuery
    /\ source = "Pattern"
    /\ ~IsCompleteEntry(patterns.items[1])
    /\ Len(CompleteEntries) < Len(patterns.items)
    /\ ResultText = AnswerOver(CompleteEntries)

---------------------------------------------------------------------------
\* The keyword classifier across the calls of a session

\* the exchanges the transcript holds: a user turn followed by its answer
Exchanges == 1..(Len(conversation_context) \div 2)
Asked(k) == conversation_context[2 * k - 1]
Answered(k) == conversation_context[2 * k]

\* the answers the keyword rules can give, and the localized defaults
RuleAnswers ==
    {ASSISTANT_PREFIX \o KeywordRules[i].response : i \in 1..Len(KeywordRules)}
DefaultAnswers ==
    {ASSISTANT_PREFIX \o no_response(language) : language \in Languages}

\* C16 as stated (src/app.py:164-179): the keyword chain, its closing default
\* included, is a pure function of the normalized query: two calls with the
\* same normalized query that it answers get the same response, whatever
\* happened between them (other queries, transcript growth, a change of the
\* language preference).
C16_KeywordChainPure ==
    \A i, j \in Exchanges :
        ( /\ Asked(i) = Asked(j)
          /\ Answered(i) \in RuleAnswers \cup DefaultAnswers
          /\ Answered(j) \in RuleAnswers \cup DefaultAnswers ) =>
            Answered(i) = Answered(j)

\* C16 amended: two calls with the same normalized query that a keyword rule
\* answers get the same response, whatever happened between them; a query no
\* rule matches gets the default of the language in force at the call.
C16_KeywordRulesPure ==
    /\ \A i, j \in Exchanges :
           ( /\ Asked(i) = Asked(j)
             /\ Answered(i) \in RuleAnswers
             /\ Answered(j) \in RuleAnswers ) =>
               Answered(i) = Answered(j)
    /\ (Called /\ LongQuery /\ source = "None") =>
           ResultText = no_response(language_preference)

\* a keyword rule answers the same question before and after another exchange,
\* and the language preference was changed on the way
C16_Witness ==
    /\ Len(conversation_context) = 6
    /\ Asked(1) = Asked(3)
    /\ Asked(2) # Asked(1)
    /\ Answered(1) \in RuleAnswers
    /\ Answered(3) \in RuleAnswers
    /\ Called /\ source = "Keyword"
    /\ language_preference = "Hindi"

\* the row the chat handler logs for the query of the run
LoggedRow == [user_query |-> last_query, assistant_response |-> ResultText]

\* C17 (src/app.py:577-609, 97-100): for every query typed into the chat input,
\* whatever its length and whichever stage answers it, the chat handler ends
\* without a fault and appends exactly one row (raw query, response text) to
\* the interaction log, so n chat queries leave n rows in submission order.
C17_ChatRunLogsOneRow ==
    [][ (handler' = "chat") =>
            /\ fault' = NoFault
            /\ Returned'
            /\ interaction_log' = Append(interaction_log, LoggedRow') ]_vars

---------------------------------------------------------------------------
\* Extraction results and the analysis call

\* process_document returned the text of the document
Extracted ==
    /\ Processed
    /\ doc_path \in {"pdf", "docx"}
    /\ upload.content.kind = "parts"

\* C18 (src/app.py:531-548, src/document_processor.py:46-60): in the document
\* flow analyze_legal_document is called if and only if process_document
\* returned extracted text: an extraction-error string, the image placeholder
\* and the unsupported-type string are shown as an error and never analysed,
\* and extracted text is analysed whatever it contains.
C18_AnalysisIffExtracted ==
    Processed =>
        /\ AnalysisRan <=> Extracted
        /\ ~Extracted => shown = "error"

===========================================================================
